---- MODULE Spec2Model ----
(***************************************************************************)
(* Dailies-Bot: the recurrence calculator (dailies/chore.py), the command  *)
(* parser (dailies/command.py) and the occurrence store with its daily     *)
(* reminder sweep (dailies/bot.py).                                        *)
(*                                                                         *)
(* Dates are day numbers (days since 1970-01-01, proleptic Gregorian), as  *)
(* datetime.date orders them; an instant is a number of clock slots in the *)
(* machine's local time, SlotsPerDay slots to the day.  Optional values    *)
(* (Python's None) are sequences of length 0 or 1.  A dict is a function;  *)
(* its iteration order is ascending key order, which is the insertion      *)
(* order of DailiesState's dicts: add_new_chore always inserts an id that  *)
(* is >= last_chore_id >= every live id.                                   *)
(***************************************************************************)
EXTENDS Integers, Sequences, FiniteSets, TLC

\* ------------------------------------------------------------------ bounds
\* clock slots per calendar day
SlotsPerDay == 2
\* number of calendar days the clock runs past the start date
MaxDays == 2
\* largest chore id handed out
MaxId == 1
\* number of delay commands in one run
MaxDelays == 1
\* largest interval of the chores the calculator is tried on
MaxInterval == 2
\* number of days after the first one on which the calculator is tried as today
CalcDays == 55
\* largest number of days the previous date lies before today
MaxLag == 63

\* ---------------------------------------------------------------- optional
None == <<>>

Some(x) == <<x>>

Val(o) == o[1]

\* ---------------------------------------------------------------- calendar
\* datetime.date(y, m, d).toordinal() - date(1970, 1, 1).toordinal()
DaysFromCivil(y, m, d) ==
    LET yy  == IF m <= 2 THEN y - 1 ELSE y
        era == yy \div 400
        yoe == yy - era * 400
        mp  == (m + 9) % 12
        doy == (153 * mp + 2) \div 5 + d - 1
        doe == yoe * 365 + yoe \div 4 - yoe \div 100 + doy
    IN  era * 146097 + doe - 719468

\* the (year, month, day) fields of a date
CivilFromDays(z) ==
    LET fields(era, yoe, doy, mp, m) ==
            [year  |-> yoe + era * 400 + (IF m <= 2 THEN 1 ELSE 0),
             month |-> m,
             day   |-> doy - (153 * mp + 2) \div 5 + 1]
        of_mp(era, yoe, doy, mp) ==
            fields(era, yoe, doy, mp, IF mp < 10 THEN mp + 3 ELSE mp - 9)
        of_doy(era, yoe, doy) == of_mp(era, yoe, doy, (5 * doy + 2) \div 153)
        of_yoe(era, doe, yoe) ==
            of_doy(era, yoe, doe - (365 * yoe + yoe \div 4 - yoe \div 100))
        of_doe(era, doe) ==
            of_yoe(era, doe,
                   (doe - doe \div 1460 + doe \div 36524 - doe \div 146096) \div 365)
        of_era(zz, era) == of_doe(era, zz - era * 146097)
        of_zz(zz) == of_era(zz, zz \div 146097)
    IN  CHOOSE c \in {of_zz(zz) : zz \in {z + 719468}} : TRUE

\* date.weekday(): Monday is 0, Sunday is 6
WeekdayOf(z) == (z + 3) % 7

IsLeap(y) == (y % 4 = 0) /\ ((y % 100 # 0) \/ (y % 400 = 0))

\* calendar.monthrange(year, month)[1]
DaysInMonth(y, m) ==
    IF m = 2 THEN (IF IsLeap(y) THEN 29 ELSE 28)
    ELSE IF m \in {4, 6, 9, 11} THEN 30 ELSE 31

\* datetime.date(year, month, day): raises ValueError when the day is not a
\* day of that month
MkDate(y, m, d) ==
    IF m \in 1..12 /\ d >= 1 /\ d <= DaysInMonth(y, m)
    THEN [raised |-> FALSE, value |-> DaysFromCivil(y, m, d)]
    ELSE [raised |-> TRUE, value |-> 0]

\* ------------------------------------------------------- dailies/chore.py
\* add_months with a quotient that rounds towards zero where // rounds down
add_months_truncating(year, month, delta_months) ==
    LET total == month - 1 + delta_months
        quot == IF total >= 0 THEN total \div 12 ELSE -((-total) \div 12)
    IN  [month |-> (total % 12) + 1, year |-> year + quot]

add_months(year, month, delta_months) ==
    [month |-> ((month - 1 + delta_months) % 12) + 1,
     year  |-> year + ((month - 1 + delta_months) \div 12)]

\* get_monthday counting -1 as the last day of the month
get_monthday_from_last(year, month, delta) ==
    IF delta > 0 THEN delta ELSE DaysInMonth(year, month) + delta + 1

\* get_monthday counting every offset from the start of the month
get_monthday_from_start(year, month, delta) ==
    IF delta > 0 THEN delta ELSE 1 - delta

\* get_monthday without line 16: every month taken as 31 days long
get_monthday_of_long_month(year, month, delta) ==
    IF delta > 0 THEN delta ELSE 31 + delta

get_monthday(year, month, delta) ==
    IF delta > 0 THEN delta ELSE DaysInMonth(year, month) + delta

get_weekday_index(weekday) ==
    CASE weekday = "m" -> 0
      [] weekday = "t" -> 1
      [] weekday = "w" -> 2
      [] weekday = "r" -> 3
      [] weekday = "f" -> 4
      [] weekday = "s" -> 5
      [] weekday = "u" -> 6
      [] OTHER -> -1

Max(a, b) == IF a >= b THEN a ELSE b

Returned(d) == [raised |-> FALSE, value |-> d]

Raised == [raised |-> TRUE, value |-> 0]

\* raise Exception("Invalid weekday set: ..."), line 84
InvalidWeekday == [raised |-> TRUE, value |-> 0, why |-> "Invalid weekday"]

\* raise Exception("Invalid units: ..."), line 119
InvalidUnits == [raised |-> TRUE, value |-> 0, why |-> "Invalid units"]

\* next_date_days without the floor of one day
next_date_days_unclamped(chore, today, sched_date) ==
    IF sched_date = None
    THEN [raised |-> FALSE, value |-> today + 1]
    ELSE [raised |-> FALSE,
          value |-> today + (Val(chore.interval) - (today - Val(sched_date)))]

\* next_date_days taking the interval when there is no previous date
next_date_days_first_after_interval(chore, today, sched_date) ==
    IF sched_date = None
    THEN Returned(today + Val(chore.interval))
    ELSE Returned(today + Max(Val(chore.interval) - (today - Val(sched_date)), 1))

\* next_date_days counting the interval from today, whatever has elapsed
next_date_days_from_today(chore, today, sched_date) ==
    IF sched_date = None
    THEN Returned(today + 1)
    ELSE Returned(today + Max(Val(chore.interval), 1))

\* unit "d" of calculate_next_date
next_date_days(chore, today, sched_date) ==
    IF sched_date = None
    THEN Returned(today + 1)
    ELSE Returned(today + Max(Val(chore.interval) - (today - Val(sched_date)), 1))

\* next_weekday_after taking today when today is the weekday
next_weekday_after_or_today(today, weekday) ==
    LET curr_weekday == WeekdayOf(today)
    IN  IF curr_weekday <= weekday
        THEN Returned(today + (weekday - curr_weekday))
        ELSE Returned(today + 7 + (weekday - curr_weekday))

\* next_weekday_after without lines 96-97: always a week from today
next_weekday_after_a_week(today, weekday) == Returned(today + 7)

\* the fallback of unit "w": the next such weekday after today
next_weekday_after(today, weekday) ==
    LET curr_weekday == WeekdayOf(today)
    IN  IF curr_weekday < weekday
        THEN Returned(today + (weekday - curr_weekday))
        ELSE Returned(today + 7 + (weekday - curr_weekday))

\* next_date_weeks without lines 88-92: the interval is counted from the
\* previous date as it is
next_date_weeks_unaligned(chore, today, sched_date) ==
    LET weekday == get_weekday_index(chore.weekday)
    IN  IF weekday = -1 THEN InvalidWeekday
        ELSE IF sched_date # None
        THEN LET result == Val(sched_date) + Val(chore.interval) * 7
             IN  IF result - today > 0 THEN Returned(result)
                 ELSE next_weekday_after(today, weekday)
        ELSE next_weekday_after(today, weekday)

\* unit "w" of calculate_next_date
next_date_weeks(chore, today, sched_date) ==
    LET weekday == get_weekday_index(chore.weekday)
    IN  IF weekday = -1 THEN InvalidWeekday
        ELSE IF sched_date # None
        THEN LET s0 == Val(sched_date)
                 s1 == IF WeekdayOf(s0) > weekday
                       THEN s0 - (WeekdayOf(s0) - weekday)
                       ELSE IF WeekdayOf(s0) < weekday
                       THEN s0 - (7 - (weekday - WeekdayOf(s0)))
                       ELSE s0
                 result == s1 + Val(chore.interval) * 7
             IN  IF result - today > 0 THEN Returned(result)
                 ELSE next_weekday_after(today, weekday)
        ELSE next_weekday_after(today, weekday)

\* lines 112-117 of unit "m": this month if the day is still ahead, else the
\* next month; day is whatever the local variable holds at that point
next_monthday_after(chore, today, day) ==
    LET in_month(ym) ==
            MkDate(ym.year, ym.month,
                   get_monthday(ym.year, ym.month, chore.monthdays))
        from(now) ==
            IF now.day < day
            THEN MkDate(now.year, now.month, day)
            ELSE in_month(add_months(now.year, now.month, 1))
    IN  from(CivilFromDays(today))

\* unit "m" of calculate_next_date
next_date_months(chore, today, sched_date) ==
    LET \* lines 110-111, and the fall-through with the day of line 108
        decide(day, result) ==
            IF result.raised THEN Raised
            ELSE IF result.value - today > 0 THEN result
            ELSE next_monthday_after(chore, today, day)
        \* line 109
        on_day(ym, day) == decide(day, MkDate(ym.year, ym.month, day))
        \* line 108
        in_month(ym) ==
            on_day(ym, get_monthday(ym.year, ym.month, chore.monthdays))
        \* line 107
        after(ym0) ==
            in_month(add_months(ym0.year, ym0.month, Val(chore.interval)))
        \* lines 103-106
        with_prev(day0, s) ==
            after(IF s.day < day0
                  THEN add_months(s.year, s.month, -1)
                  ELSE [month |-> s.month, year |-> s.year])
        \* line 102
        with_day(day0) ==
            IF sched_date # None
            THEN with_prev(day0, CivilFromDays(Val(sched_date)))
            ELSE next_monthday_after(chore, today, day0)
        \* line 101
        from(now) ==
            with_day(get_monthday(now.year, now.month, chore.monthdays))
    IN  from(CivilFromDays(today))

\* Chore.calculate_next_date(sched_date), with today = datetime.now().date()
calculate_next_date(chore, today, sched_date) ==
    IF chore.date # None THEN Returned(Val(chore.date))
    ELSE IF chore.unit = "d" THEN next_date_days(chore, today, sched_date)
    ELSE IF chore.unit = "w" THEN next_date_weeks(chore, today, sched_date)
    ELSE IF chore.unit = "m" THEN next_date_months(chore, today, sched_date)
    ELSE InvalidUnits

\* ----------------------------------------------------- dailies/command.py
\* A duration token is [num, last]: num is what int() makes of all but the
\* last character (None when int() raises), last is the last character.
\* parse_duration taking any last character for a unit
parse_duration_any_unit(s) ==
    IF s.num # None
    THEN Some([n |-> Val(s.num), unit |-> s.last])
    ELSE None

parse_duration(s) ==
    IF s.last \in {"d", "w", "m"} /\ s.num # None
    THEN Some([n |-> Val(s.num), unit |-> s.last])
    ELSE None

\* Chore(): the class defaults
NewChore ==
    [title |-> "", interval |-> None, unit |-> "None", weekday |-> "None",
     monthdays |-> 0, date |-> None, user |-> 0]

WeekdayTokens ==
    {"sunday", "u", "monday", "m", "tuesday", "t", "wednesday", "w",
     "thursday", "r", "friday", "f", "saturday", "s"}

\* the weekday token kept as it was typed
WeekdayCode_as_typed(tok) == tok

\* the weekday letter kept for an accepted (lower-cased) weekday token
WeekdayCode(tok) ==
    CASE tok = "sunday" -> "u"
      [] tok = "thursday" -> "r"
      [] tok = "monday" -> "m"
      [] tok = "tuesday" -> "t"
      [] tok = "wednesday" -> "w"
      [] tok = "friday" -> "f"
      [] tok = "saturday" -> "s"
      [] OTHER -> tok

ParseOk(chore) ==
    [ok |-> TRUE, chore |-> chore, message |-> "", token |-> None]

\* ChoreParseException(msg); a token the message ends in is not kept
ParseError(msg) ==
    [ok |-> FALSE, chore |-> NewChore, message |-> msg, token |-> None]

\* ChoreParseException(msg + tok): the message ends in the offending token
ParseErrorNaming(msg, tok) ==
    [ok |-> FALSE, chore |-> NewChore, message |-> msg, token |-> Some(tok)]

\* parse_chore_from_line(args), with today = datetime.now().date(). The
\* argument list is kept as what the parser reads of it:
\*   args.title   the title, lines 21-34
\*   args.closed  FALSE when the title opens with a double quote that no
\*                later word closes
\*   args.rest    the number of words after the title: len(args) - n
\*   args.user    the id inside <@...> of args[n], None for a malformed mention
\*   args.kw      args[n + 1]
\*   args.dur     args[n + 2] read as a duration token
\*   args.extra   args[n + 3]: [text, num], None when absent
\*   args.date    the date the first matching format gives args[n + 2], None
\*                when none does
parse_chore_from_line(args, today) ==
    IF ~args.closed THEN ParseError("Invalid chore title")
    ELSE IF args.rest < 3 THEN ParseError("Missing arguments")
    ELSE IF args.user = None THEN ParseError("Invalid user")
    ELSE LET c0 == [NewChore EXCEPT !.title = args.title, !.user = Val(args.user)]
    IN  IF args.kw = "every"
        THEN LET ret == parse_duration(args.dur)
             IN  IF ret = None
                 THEN ParseErrorNaming("Invalid duration", args.dur)
                 ELSE LET c1 == [c0 EXCEPT !.interval = Some(Val(ret).n),
                                           !.unit = Val(ret).unit]
                 IN  IF c1.unit # "d" /\ args.rest < 4
                     THEN ParseError("Must specify weekday or month days")
                     ELSE IF c1.unit = "w"
                     THEN IF Val(args.extra).text \notin WeekdayTokens
                          THEN ParseErrorNaming("Invalid weekday",
                                                Val(args.extra).text)
                          ELSE ParseOk([c1 EXCEPT !.weekday =
                                           WeekdayCode(Val(args.extra).text)])
                     ELSE IF c1.unit = "m"
                     THEN IF Val(args.extra).num = None
                          THEN ParseErrorNaming("Invalid month day",
                                                Val(args.extra).text)
                          ELSE LET md == Val(Val(args.extra).num)
                               IN  IF md > 20 \/ md < -20
                                   THEN ParseErrorNaming("Invalid month day",
                                                         Val(args.extra).text)
                                   ELSE ParseOk([c1 EXCEPT !.monthdays = md])
                     ELSE ParseOk(c1)
        ELSE IF args.kw = "on"
        THEN IF args.date = None THEN ParseError("Invalid date format")
             ELSE IF Val(args.date) - today <= 0
             THEN ParseError("Invalid date, must occur after today")
             ELSE ParseOk([c0 EXCEPT !.date = args.date])
        ELSE ParseError("Invalid argument, must be 'every' or 'on'")

\* ------------------------------------------------------------ persistence
RECURSIVE SortedSeq(_)
\* the keys of a dict in iteration order
SortedSeq(S) ==
    IF S = {} THEN <<>>
    ELSE LET lo == CHOOSE x \in S : \A y \in S : x <= y
         IN  <<lo>> \o SortedSeq(S \ {lo})

Range(seq) == {seq[i] : i \in DOMAIN seq}

\* strftime writing the day before the month
strftime_day_first(d) ==
    LET c == CivilFromDays(d) IN <<c.year, c.day, c.month>>

\* date.strftime(DATE_FORMAT): the text "YYYY/MM/DD", as its three numbers
strftime(d) ==
    LET c == CivilFromDays(d) IN <<c.year, c.month, c.day>>

\* datetime.strptime(text, DATE_FORMAT).date()
strptime(text) == MkDate(text[1], text[2], text[3]).value

\* Chore.to_json
to_json(chore) ==
    [title |-> chore.title, interval |-> chore.interval, unit |-> chore.unit,
     weekday |-> chore.weekday, monthdays |-> chore.monthdays,
     date |-> IF chore.date = None THEN None ELSE Some(strftime(Val(chore.date))),
     user |-> chore.user]

parse_chore_from_json(obj) ==
    [title |-> obj.title, interval |-> obj.interval, unit |-> obj.unit,
     weekday |-> obj.weekday, monthdays |-> obj.monthdays,
     date |-> IF obj.date = None THEN None ELSE Some(strptime(Val(obj.date))),
     user |-> obj.user]

\* DailiesState.serialize
serialize(st) ==
    [chores |-> [i \in 1..Cardinality(DOMAIN st.chores) |->
                    LET id == SortedSeq(DOMAIN st.chores)[i]
                    IN  [id |-> id, chore |-> to_json(st.chores[id])]],
     upcoming_chores |-> [i \in 1..Cardinality(DOMAIN st.upcoming_chores) |->
                    LET id == SortedSeq(DOMAIN st.upcoming_chores)[i]
                    IN  [id |-> id, date |-> strftime(st.upcoming_chores[id])]],
     last_chore_id |-> st.last_chore_id,
     next_remind_date |-> IF st.next_remind_date = None THEN None
                          ELSE Some(strftime(Val(st.next_remind_date)))]

\* DailiesState.deserialize
deserialize(obj) ==
    [chores |-> [id \in {e.id : e \in Range(obj.chores)} |->
                    parse_chore_from_json(
                        (CHOOSE e \in Range(obj.chores) : e.id = id).chore)],
     upcoming_chores |-> [id \in {e.id : e \in Range(obj.upcoming_chores)} |->
                    strptime((CHOOSE e \in Range(obj.upcoming_chores) : e.id = id).date)],
     last_chore_id |-> obj.last_chore_id,
     next_remind_date |-> IF obj.next_remind_date = None THEN None
                          ELSE Some(strptime(Val(obj.next_remind_date)))]

\* DailiesState(): the class defaults
DefaultState ==
    [chores |-> <<>>, upcoming_chores |-> <<>>, last_chore_id |-> 0,
     next_remind_date |-> None]

\* ------------------------------------------------------------------ state
VARIABLES
    state,           \* DailiesClient.state: chores, upcoming_chores,
                     \* last_chore_id, next_remind_date
    config,          \* DailiesClient.config: discord_remind_channel,
                     \* remind_time (a slot of the day), timezone (its offset
                     \* from the machine's local zone, in slots)
    next_remind_dt,  \* DailiesClient.next_remind_dt: [date, time, tz]
    state_file,      \* state.json
    config_file,     \* config.json
    now,             \* the clock, in slots of local time
    outbox,          \* messages remind_task has still to send
    last,            \* the handler that ran last and how it ended
    sweeps_today,    \* firing sweeps so far on the current local day, 2 for
                     \* two or more
    ndelays,         \* delay commands so far
    calc,            \* one call of calculate_next_date: its arguments, and
                     \* its result once it has returned or raised
    task_running     \* remind_task.is_running(): the loop started by
                     \* on_ready has not ended

vars == <<state, config, next_remind_dt, state_file, config_file, now, outbox,
          last, sweeps_today, ndelays, calc, task_running>>

\* datetime.now().date(), and now.date() of datetime.now().astimezone()
Today == now \div SlotsPerDay

\* the instant of an aware datetime, in slots of local time
Instant(dt) == dt.date * SlotsPerDay + dt.time - dt.tz

\* datetime.datetime(date, remind_time, tzinfo=timezone)
RemindAt(date, cfg) == [date |-> date, time |-> cfg.remind_time, tz |-> cfg.timezone]

Did(op, result, id) == [op |-> op, result |-> result, id |-> id]

\* ----------------------------------------------------------------- inputs
\* the day the service is first started: Tuesday 2024-01-30
StartDate == DaysFromCivil(2024, 1, 30)

\* a configured channel id
Channel == 1

\* offsets of the configured time zone from the machine's zone, in slots
Timezones == {-1, 0, 1}

RemindTimes == 0..(SlotsPerDay - 1)

ConfigInputs ==
    [discord_remind_channel : {0, Channel}, remind_time : RemindTimes,
     timezone : Timezones]

Every(title, user, n, unit, extra) ==
    [title |-> title, closed |-> TRUE,
     rest |-> IF extra = None THEN 3 ELSE 4, user |-> Some(user),
     kw |-> "every", dur |-> [num |-> Some(n), last |-> unit],
     extra |-> extra, date |-> None]

On(title, user, date) ==
    [title |-> title, closed |-> TRUE, rest |-> 3, user |-> Some(user),
     kw |-> "on", dur |-> [num |-> None, last |-> ""], extra |-> None,
     date |-> Some(date)]

\* `BadTitle every 2x`: two words after the title, of which `every` stands
\* where the mention is read and `2x` where the keyword is
BadTitleNoUser ==
    [title |-> "BadTitle", closed |-> TRUE, rest |-> 2, user |-> None,
     kw |-> "2x", dur |-> [num |-> None, last |-> ""], extra |-> None,
     date |-> None]

Tok(text, num) == Some([text |-> text, num |-> num])

\* the add commands tried: `every 2d`, `every 1w wednesday`, `every 1m 0`,
\* `on <tomorrow>`, and two the parser rejects: `every 2x`, `on <today>`
AddInputs ==
    { Every("dishes", 1, 2, "d", None),
      Every("bins", 2, 1, "w", Tok("wednesday", None)),
      Every("rent", 1, 1, "m", Tok("0", Some(0))),
      On("classes", 2, Today + 1),
      Every("bad", 1, 2, "x", None),
      On("late", 2, Today) }

\* the chore-id arguments tried: every id, and one that is not an integer
IdInputs == {Some(i) : i \in 0..MaxId} \cup {None}

\* the duration tokens tried by delay: `1d`, `2w`, `1m`, `-1m`, `2x`
DelayInputs ==
    { [num |-> Some(1), last |-> "d"], [num |-> Some(2), last |-> "w"],
      [num |-> Some(1), last |-> "m"], [num |-> Some(-1), last |-> "m"],
      [num |-> Some(2), last |-> "x"] }

\* --------------------------------------------------- DailiesClient.__init__
\* __init__ taking lines 105-112 whatever state.json holds
ClientInit_from_now(cfg, st, t) ==
    LET rdt0 == RemindAt(t \div SlotsPerDay, cfg)
        rdt  == IF Instant(rdt0) - t < 0
                THEN [rdt0 EXCEPT !.date = @ + 1] ELSE rdt0
    IN  [state |-> [st EXCEPT !.next_remind_date = Some(rdt.date)],
         next_remind_dt |-> rdt]

\* the state and the cursor after construction, from the loaded state
ClientInit(cfg, st, t) ==
    IF st.next_remind_date = None
    THEN LET rdt0 == RemindAt(t \div SlotsPerDay, cfg)
             rdt  == IF Instant(rdt0) - t < 0
                     THEN [rdt0 EXCEPT !.date = @ + 1] ELSE rdt0
         IN  [state |-> [st EXCEPT !.next_remind_date = Some(rdt.date)],
              next_remind_dt |-> rdt]
    ELSE [state |-> st,
          next_remind_dt |-> RemindAt(Val(st.next_remind_date), cfg)]

\* the configuration of a machine in the configured zone, reminding at the
\* first slot of the day
PlainConfig ==
    [discord_remind_channel |-> Channel, remind_time |-> 0, timezone |-> 0]

\* the first start at time t: config.json as the operator wrote it, no
\* state.json
InitAt(configs, t) ==
    /\ now = t
    /\ config_file \in configs
    /\ config = config_file
    /\ LET c == ClientInit(config_file, DefaultState, t)
       IN  /\ state = c.state
           /\ next_remind_dt = c.next_remind_dt
           /\ state_file = serialize(c.state)
    /\ outbox = <<>>
    /\ last = Did("init", "ok", 0)
    /\ sweeps_today = 0
    /\ ndelays = 0
    /\ task_running = TRUE

InitWith(configs) == InitAt(configs, StartDate * SlotsPerDay)

\* no call of calculate_next_date on its own
NoCalc ==
    [chore |-> NewChore, today |-> 0, sched_date |-> None, done |-> FALSE,
     result |-> Raised]

Init == InitWith({PlainConfig}) /\ calc = NoCalc

InitClock == InitWith(ConfigInputs) /\ calc = NoCalc

\* the process is stopped and started again: config.json and state.json are
\* loaded, the cursor is rebuilt, messages not yet sent are lost
Restart ==
    LET built(loaded, c) ==
            /\ state' = c.state
            /\ next_remind_dt' = c.next_remind_dt
            /\ state_file' = IF loaded.next_remind_date = None
                             THEN serialize(state') ELSE state_file
        started(loaded) == built(loaded, ClientInit(config_file, loaded, now))
    IN  /\ config' = config_file
        /\ started(deserialize(state_file))
        /\ outbox' = <<>>
        /\ last' = Did("restart", "ok", 0)
        /\ task_running' = TRUE
        /\ UNCHANGED <<config_file, now, sweeps_today, ndelays, calc>>

\* time passes, by slots clock slots; a slot is long against the sending of
\* a message, so none is still unsent
Pass(slots) ==
    /\ outbox = <<>>
    /\ (now + slots) \div SlotsPerDay <= StartDate + MaxDays
    /\ now' = now + slots
    /\ sweeps_today' = IF now' \div SlotsPerDay = Today THEN sweeps_today ELSE 0
    /\ last' = Did("tick", "ok", 0)
    /\ UNCHANGED <<state, config, next_remind_dt, state_file, config_file,
                   outbox, ndelays, calc,
                   task_running>>

\* a clock slot passes
Tick == Pass(1)

\* a day passes
NextDay == Pass(SlotsPerDay)

\* ------------------------------------------------ DailiesState.add_new_chore
\* the smallest id that is not in use, whatever the counter says
next_free_id_from_zero(last_chore_id, chores) ==
    CHOOSE k \in 0..Cardinality(DOMAIN chores) :
        k \notin DOMAIN chores /\ \A j \in 0..(k - 1) : j \in DOMAIN chores

\* add_new_chore without lines 54-55: the counter is taken as it is
next_free_id_without_scan(last_chore_id, chores) == last_chore_id

RECURSIVE next_free_id(_, _)
\* the while loop of add_new_chore
next_free_id(last_chore_id, chores) ==
    IF last_chore_id \in DOMAIN chores
    THEN next_free_id(last_chore_id + 1, chores)
    ELSE last_chore_id

Put(dict, key, value) == [k \in DOMAIN dict \cup {key} |->
                             IF k = key THEN value ELSE dict[k]]

Del(dict, key) == [k \in DOMAIN dict \ {key} |-> dict[k]]

\* add_new_chore up to the save; raised when calculate_next_date raised
add_new_chore(st, chore, today) ==
    LET \* line 61
        scheduled(chore_id, st1, r) ==
            IF r.raised
            THEN [raised |-> TRUE, id |-> chore_id, state |-> st1]
            ELSE [raised |-> FALSE, id |-> chore_id,
                  state |-> [st1 EXCEPT !.upcoming_chores =
                                            Put(@, chore_id, r.value)]]
        \* lines 58-61
        registered(chore_id, st1) ==
            IF chore.date # None
            THEN [raised |-> FALSE, id |-> chore_id,
                  state |-> [st1 EXCEPT !.upcoming_chores =
                                            Put(@, chore_id, Val(chore.date))]]
            ELSE scheduled(chore_id, st1,
                           calculate_next_date(chore, today, None))
        \* lines 56-57
        with_id(chore_id) ==
            registered(chore_id, [st EXCEPT !.last_chore_id = chore_id,
                                            !.chores = Put(@, chore_id, chore)])
    IN  with_id(next_free_id(st.last_chore_id, st.chores))

\* on_message, `add ...`, taking the next id before the arguments are parsed
Add_taking_id_first(args, max_id) ==
    LET added(a) ==
            /\ a.id <= max_id
            /\ state' = a.state
            /\ state_file' = IF a.raised THEN state_file ELSE serialize(state')
            /\ last' = Did("add", IF a.raised THEN "raised" ELSE "ok", a.id)
        parsed(p) ==
            IF ~p.ok
            THEN /\ last' = Did("add", "error", 0)
                 /\ state' = [state EXCEPT !.last_chore_id =
                                 next_free_id(@, state.chores)]
                 /\ state_file' = serialize(state')
            ELSE added(add_new_chore(state, p.chore, Today))
    IN  parsed(parse_chore_from_line(args, Today))

\* on_message, `add ...`
Add(args, max_id) ==
    LET added(a) ==
            /\ a.id <= max_id
            /\ state' = a.state
            /\ state_file' = IF a.raised THEN state_file ELSE serialize(state')
            /\ last' = Did("add", IF a.raised THEN "raised" ELSE "ok", a.id)
        parsed(p) ==
            IF ~p.ok
            THEN /\ last' = Did("add", "error", 0)
                 /\ UNCHANGED <<state, state_file>>
            ELSE added(add_new_chore(state, p.chore, Today))
    IN  parsed(parse_chore_from_line(args, Today))

AddCmd(inputs, max_id) ==
    /\ \E args \in inputs : Add(args, max_id)
    /\ UNCHANGED <<config, next_remind_dt, config_file, now, outbox, sweeps_today,
                   ndelays, calc,
                   task_running>>

\* delete_chore without lines 256-257
delete_chore_leaving_occurrence(st, chore_id) ==
    [st EXCEPT !.chores = [k \in DOMAIN @ \ {chore_id} |-> @[k]]]

\* delete_chore clearing the upcoming chores instead of lines 256-257
delete_chore_dropping_occurrences(st, chore_id) ==
    [st EXCEPT !.chores = Del(@, chore_id),
               !.upcoming_chores = [k \in {} |-> 0]]

\* delete_chore without line 255: the chore stays in the registry
delete_chore_leaving_chore(st, chore_id) ==
    IF chore_id \in DOMAIN st.upcoming_chores
    THEN [st EXCEPT !.upcoming_chores = Del(@, chore_id)]
    ELSE st

\* on_message, `delete <id>`
delete_chore(st, chore_id) ==
    LET st1 == [st EXCEPT !.chores = Del(@, chore_id)]
    IN  IF chore_id \in DOMAIN st.upcoming_chores
        THEN [st1 EXCEPT !.upcoming_chores = Del(@, chore_id)]
        ELSE st1

Delete(id_arg) ==
    IF id_arg = None \/ Val(id_arg) \notin DOMAIN state.chores
    THEN /\ last' = Did("delete", "not found", 0)
         /\ UNCHANGED <<state, state_file>>
    ELSE /\ state' = delete_chore(state, Val(id_arg))
         /\ state_file' = serialize(state')
         /\ last' = Did("delete", "ok", Val(id_arg))

DeleteCmd ==
    /\ \E id_arg \in IdInputs : Delete(id_arg)
    /\ UNCHANGED <<config, next_remind_dt, config_file, now, outbox, sweeps_today,
                   ndelays, calc,
                   task_running>>

\* delayed_date taking weeks for days at line 288
delayed_date_weeks_as_days(remind_date, chore, dur) ==
    LET in_month(ym) ==
            MkDate(ym.year, ym.month,
                   get_monthday(ym.year, ym.month, chore.monthdays))
        months_on(r, n) == in_month(add_months(r.year, r.month, n))
        by(n, unit) ==
            IF unit = "d" THEN Returned(remind_date + n)
            ELSE IF unit = "w" THEN Returned(remind_date + n)
            ELSE months_on(CivilFromDays(remind_date), n)
        unpacked(ret) ==
            IF ret = None THEN Raised ELSE by(Val(ret).n, Val(ret).unit)
    IN  unpacked(parse_duration(dur))

\* on_message, `delay <id> <duration>`: the new reminder date, lines 282-295;
\* raised when unpacking parse_duration's None or building the date raises
delayed_date(remind_date, chore, dur) ==
    LET \* lines 291-292
        in_month(ym) ==
            MkDate(ym.year, ym.month,
                   get_monthday(ym.year, ym.month, chore.monthdays))
        \* line 290
        months_on(r, n) == in_month(add_months(r.year, r.month, n))
        \* lines 285-293
        by(n, unit) ==
            IF unit = "d" THEN Returned(remind_date + n)
            ELSE IF unit = "w" THEN Returned(remind_date + n * 7)
            ELSE months_on(CivilFromDays(remind_date), n)
        \* line 284
        unpacked(ret) ==
            IF ret = None THEN Raised ELSE by(Val(ret).n, Val(ret).unit)
    IN  unpacked(parse_duration(dur))

\* on_message, `delay <id> <duration>` without the save of line 297
Delay_without_save(id_arg, dur) ==
    IF id_arg = None \/ Val(id_arg) \notin DOMAIN state.upcoming_chores
    THEN /\ last' = Did("delay", "not found", 0)
         /\ UNCHANGED <<state, state_file>>
    ELSE LET moved(chore_id, d) ==
                 IF d.raised
                 THEN /\ last' = Did("delay", "raised", chore_id)
                      /\ UNCHANGED <<state, state_file>>
                 ELSE /\ state' = [state EXCEPT
                                      !.upcoming_chores[chore_id] = d.value]
                      /\ state_file' = state_file
                      /\ last' = Did("delay", "ok", chore_id)
             found(chore_id) ==
                 moved(chore_id,
                       delayed_date(state.upcoming_chores[chore_id],
                                    state.chores[chore_id], dur))
         IN  found(Val(id_arg))

Delay(id_arg, dur) ==
    IF id_arg = None \/ Val(id_arg) \notin DOMAIN state.upcoming_chores
    THEN /\ last' = Did("delay", "not found", 0)
         /\ UNCHANGED <<state, state_file>>
    ELSE LET moved(chore_id, d) ==
                 IF d.raised
                 THEN /\ last' = Did("delay", "raised", chore_id)
                      /\ UNCHANGED <<state, state_file>>
                 ELSE /\ state' = [state EXCEPT
                                      !.upcoming_chores[chore_id] = d.value]
                      /\ state_file' = serialize(state')
                      /\ last' = Did("delay", "ok", chore_id)
             found(chore_id) ==
                 moved(chore_id,
                       delayed_date(state.upcoming_chores[chore_id],
                                    state.chores[chore_id], dur))
         IN  found(Val(id_arg))

DelayCmd ==
    /\ ndelays < MaxDelays
    /\ ndelays' = ndelays + 1
    /\ \E id_arg \in IdInputs, dur \in DelayInputs : Delay(id_arg, dur)
    /\ UNCHANGED <<config, next_remind_dt, config_file, now, outbox, sweeps_today,
                   calc,
                   task_running>>

\* on_message, `config set channel <#id>` for a channel that exists
ConfigSetChannel ==
    /\ config.discord_remind_channel # Channel
    /\ config' = [config EXCEPT !.discord_remind_channel = Channel]
    /\ config_file' = config'
    /\ last' = Did("config", "channel", 0)
    /\ UNCHANGED <<state, next_remind_dt, state_file, now, outbox, sweeps_today,
                   ndelays, calc,
                   task_running>>

\* on_message, `config set time HH:MM`
ConfigSetTime ==
    /\ \E t \in RemindTimes \ {config.remind_time} :
         /\ config' = [config EXCEPT !.remind_time = t]
         /\ next_remind_dt' = [next_remind_dt EXCEPT !.time = t]
    /\ config_file' = config'
    /\ last' = Did("config", "time", 0)
    /\ UNCHANGED <<state, state_file, now, outbox, sweeps_today, ndelays, calc,
                   task_running>>

\* on_message, `config set timezone <IANA name>`
ConfigSetTimezone ==
    /\ \E tz \in Timezones \ {config.timezone} :
         /\ config' = [config EXCEPT !.timezone = tz]
         /\ next_remind_dt' = [next_remind_dt EXCEPT !.tz = tz]
    /\ config_file' = config'
    /\ last' = Did("config", "timezone", 0)
    /\ UNCHANGED <<state, state_file, now, outbox, sweeps_today, ndelays, calc,
                   task_running>>

\* ------------------------------------------------ DailiesClient.remind_task
\* current_chores[user].append(chore): a dict of lists in insertion order,
\* as a sequence of [user, chores]; a chore is named by its id
AppendFor(current_chores, user, chore_id) ==
    IF \E i \in DOMAIN current_chores : current_chores[i].user = user
    THEN [i \in DOMAIN current_chores |->
             IF current_chores[i].user = user
             THEN [current_chores[i] EXCEPT !.chores = Append(@, chore_id)]
             ELSE current_chores[i]]
    ELSE Append(current_chores, [user |-> user, chores |-> <<chore_id>>])

\* the locals of remind_task before its loop, with the state it works on
SweepStart(st) ==
    [raised |-> FALSE, state |-> st, current_chores |-> <<>>,
     update |-> <<>>, delete |-> <<>>]

\* due only when the date is already past
is_due_when_past(date, today) == date - today < 0

\* line 146: (date - now.date()).days <= 0
is_due(date, today) == ~(date - today > 0)

\* the loop body writing each new date at once, not into `update`
SweepVisit_in_place(acc, chore_id, today) ==
    LET date == acc.state.upcoming_chores[chore_id]
    IN  IF acc.raised \/ ~is_due(date, today) THEN acc
        ELSE LET chore == acc.state.chores[chore_id]
                 cc == AppendFor(acc.current_chores, chore.user, chore_id)
                 updated(r) ==
                     IF r.raised
                     THEN [acc EXCEPT !.raised = TRUE, !.current_chores = cc]
                     ELSE [acc EXCEPT !.current_chores = cc,
                              !.state.upcoming_chores[chore_id] = r.value]
             IN  IF chore.date = None
                 THEN updated(calculate_next_date(chore, today, Some(date)))
                 ELSE [acc EXCEPT !.current_chores = cc,
                                  !.delete = Append(@, chore_id)]

\* one iteration of the loop over upcoming_chores.items(), lines 145-154
SweepVisit(acc, chore_id, today) ==
    LET date == acc.state.upcoming_chores[chore_id]
    IN  IF acc.raised \/ ~is_due(date, today) THEN acc
        ELSE IF chore_id \notin DOMAIN acc.state.chores
        THEN [acc EXCEPT !.raised = TRUE]
        ELSE LET chore == acc.state.chores[chore_id]
                 cc == AppendFor(acc.current_chores, chore.user, chore_id)
                 \* line 152
                 updated(r) ==
                     IF r.raised
                     THEN [acc EXCEPT !.raised = TRUE, !.current_chores = cc]
                     ELSE [acc EXCEPT !.current_chores = cc,
                                      !.update = Put(@, chore_id, r.value)]
             IN  IF chore.date = None
                 THEN updated(calculate_next_date(chore, today, Some(date)))
                 ELSE [acc EXCEPT !.current_chores = cc,
                                  !.delete = Append(@, chore_id)]

RECURSIVE SweepLoop(_, _, _)
SweepLoop(acc, ids, today) ==
    IF ids = <<>> THEN acc
    ELSE CHOOSE r \in {SweepLoop(a, Tail(ids), today) :
                          a \in {SweepVisit(acc, Head(ids), today)}} : TRUE

\* lines 155-159 without line 158: the registry keeps a fired fixed-date chore
SweepApply_keeping_chores(acc) ==
    LET st == acc.state
        gone == Range(acc.delete)
    IN  [st EXCEPT
           !.upcoming_chores =
               [id \in DOMAIN st.upcoming_chores \ gone |->
                   IF id \in DOMAIN acc.update THEN acc.update[id]
                   ELSE st.upcoming_chores[id]]]

\* lines 157-159 without lines 155-156: the new dates are not written
SweepApply_without_updates(acc) ==
    LET st == acc.state
        gone == Range(acc.delete)
    IN  [st EXCEPT
           !.upcoming_chores =
               [id \in DOMAIN st.upcoming_chores \ gone |->
                   st.upcoming_chores[id]],
           !.chores = [id \in DOMAIN st.chores \ gone |-> st.chores[id]]]

\* lines 155-159: the updates, then the deletions
SweepApply(acc) ==
    LET st == acc.state
        gone == Range(acc.delete)
    IN  [st EXCEPT
           !.upcoming_chores =
               [id \in DOMAIN st.upcoming_chores \ gone |->
                   IF id \in DOMAIN acc.update THEN acc.update[id]
                   ELSE st.upcoming_chores[id]],
           !.chores = [id \in DOMAIN st.chores \ gone |-> st.chores[id]]]

\* lines 160-166 and 172-176: the summary, then one message per user
SweepMessages(current_chores) ==
    IF current_chores = <<>>
    THEN <<[user |-> 0, chores |-> <<>>, text |-> "No chores for today!"]>>
    ELSE <<[user |-> 0, chores |-> <<>>, text |-> "Here are your dailies:"]>>
         \o [i \in DOMAIN current_chores |->
                [user |-> current_chores[i].user,
                 chores |-> current_chores[i].chores, text |-> "reminder"]]

\* the cursor's day has arrived, whatever the time
cursor_date_reached(t, dt) == ~(t \div SlotsPerDay - dt.date < 0)

\* line 134: the cursor time has arrived
CursorReached(t, dt) == ~(t - Instant(dt) < 0)

\* line 168 without the timedelta of one day: the cursor stays on the day
NextCursor_same_day(t, cfg) == RemindAt(t \div SlotsPerDay, cfg)

\* line 168: the cursor after a sweep at instant t
NextCursor(t, cfg) == RemindAt(t \div SlotsPerDay + 1, cfg)

\* remind_task without line 170
sweep_without_save(st, file) == file

\* what state.save() at line 170 leaves in state.json
SweepSave(st, file) == serialize(st)

\* remind_task without lines 130-131
ChannelUnset_never(cfg) == FALSE

\* line 130: no reminder channel is configured
ChannelUnset(cfg) == cfg.discord_remind_channel = 0

\* one run of the loop body, up to its first await (line 172); the loop runs
\* it again only after the previous run has sent its messages, and no more
\* once a run has raised: tasks.loop (line 128) ends on an exception that is
\* not a connection error and is started again only by on_ready (line 126)
remind_task ==
    /\ task_running
    /\ outbox = <<>>
    /\ IF ChannelUnset(config)
       THEN /\ last' = Did("remind_task", "no channel", 0)
            /\ UNCHANGED <<state, next_remind_dt, state_file, outbox,
                           sweeps_today, task_running>>
       ELSE IF ~CursorReached(now, next_remind_dt)
       THEN /\ last' = Did("remind_task", "waiting", 0)
            /\ UNCHANGED <<state, next_remind_dt, state_file, outbox,
                           sweeps_today, task_running>>
       ELSE LET swept(acc) ==
                    IF acc.raised
                    THEN /\ state' = acc.state
                         /\ last' = Did("remind_task", "raised", 0)
                         /\ task_running' = FALSE
                         /\ UNCHANGED <<next_remind_dt, state_file, outbox,
                                        sweeps_today>>
                    ELSE /\ task_running' = TRUE
                         /\ next_remind_dt' = NextCursor(now, config)
                         /\ state' = [SweepApply(acc) EXCEPT !.next_remind_date =
                                          Some(next_remind_dt'.date)]
                         /\ state_file' = SweepSave(state', state_file)
                         /\ outbox' = SweepMessages(acc.current_chores)
                         /\ sweeps_today' =
                                IF sweeps_today < 2 THEN sweeps_today + 1 ELSE 2
                         /\ last' = Did("remind_task", "fired", 0)
            IN  \E acc \in {SweepLoop(SweepStart(state),
                                     SortedSeq(DOMAIN state.upcoming_chores),
                                     Today)} : swept(acc)
    /\ UNCHANGED <<config, config_file, now, ndelays, calc>>

\* an await of channel.send (and add_reaction) completes
SendNext ==
    /\ outbox # <<>>
    /\ outbox' = Tail(outbox)
    /\ last' = Did("send", "ok", 0)
    /\ UNCHANGED <<state, config, next_remind_dt, state_file, config_file, now,
                   sweeps_today, ndelays, calc,
                   task_running>>

\* an await of channel.send raises with a connection error, which tasks.loop
\* survives: the rest is never sent
SendFails ==
    /\ outbox # <<>>
    /\ outbox' = <<>>
    /\ last' = Did("send", "raised", 0)
    /\ UNCHANGED <<state, config, next_remind_dt, state_file, config_file, now,
                   sweeps_today, ndelays, calc,
                   task_running>>

\* the occurrence store under PlainConfig, the clock moving by days
Next ==
    \/ NextDay
    \/ remind_task
    \/ SendNext
    \/ SendFails
    \/ AddCmd(AddInputs, MaxId)
    \/ DeleteCmd
    \/ DelayCmd
    \/ Restart

Spec == Init /\ [][Next]_vars

\* the add commands tried under SpecClock
ClockAddInputs == {Every("dishes", 1, 2, "d", None), On("classes", 2, Today + 1)}

\* the cursor under every configuration, the clock moving by slots, with at
\* most one chore
NextClock ==
    \/ Tick
    \/ remind_task
    \/ SendNext
    \/ SendFails
    \/ AddCmd(ClockAddInputs, 0)
    \/ ConfigSetChannel
    \/ ConfigSetTime
    \/ ConfigSetTimezone
    \/ Restart

SpecClock == InitClock /\ [][NextClock]_vars

\* ------------------------------------------- calculate_next_date on its own
\* the month-day offsets tried, within the parser's [-20, 20]
MonthdayInputs == {-20, -3, -2, -1, 0, 1, 2, 15, 20}

WeekdayCodes == {"m", "t", "w", "r", "f", "s", "u"}

\* recurring chores as the parser builds them; the parser takes any integer
\* as the interval, 0 stands for those that are not positive
CalcChores ==
    {[NewChore EXCEPT !.interval = Some(n), !.unit = "d"] : n \in 0..MaxInterval}
    \cup {[NewChore EXCEPT !.interval = Some(n), !.unit = "w", !.weekday = wd] :
            n \in 0..MaxInterval, wd \in WeekdayCodes}
    \cup {[NewChore EXCEPT !.interval = Some(n), !.unit = "m", !.monthdays = md] :
            n \in 0..MaxInterval, md \in MonthdayInputs}

\* the first today tried
CalcStart == DaysFromCivil(2024, 1, 15)

\* the arguments of one call: a previous date that is absent (lag -1) or lies
\* lag days before today
CalcInput(c, t, lag) ==
    [chore |-> c, today |-> CalcStart + t,
     sched_date |-> IF lag = -1 THEN None ELSE Some(CalcStart + t - lag),
     done |-> FALSE, result |-> Raised]

\* every chore, every today, every previous date
InitCalc ==
    /\ InitWith({PlainConfig})
    /\ \E c \in CalcChores, t \in 0..CalcDays, lag \in (-1)..MaxLag :
         calc = CalcInput(c, t, lag)

Calculate ==
    /\ ~calc.done
    /\ calc' = [calc EXCEPT !.done = TRUE,
                  !.result = calculate_next_date(calc.chore, calc.today,
                                                 calc.sched_date)]
    /\ UNCHANGED <<state, config, next_remind_dt, state_file, config_file, now,
                   outbox, last, sweeps_today, ndelays, task_running>>

NextCalc == Calculate

SpecCalc == InitCalc /\ [][NextCalc]_vars

\* ---------------------------------------- the commands on any day of a span
\* the days on which the bot is first started: CalcDays days on either side of
\* StartDate (2023-12-06 .. 2024-03-25, across a year end and a leap February)
CommandDays == (StartDate - CalcDays)..(StartDate + CalcDays)

\* the add commands tried: `every <n>d`, `every 1w <weekday>`, `every 1m <md>`,
\* `on <tomorrow>`, and those the parser rejects: a malformed mention, a
\* keyword other than every/on, `every 2x`, `every 1w` with no weekday or one
\* that is none, `every 1m` with 21, -21 or a word, `on <today>`, `on` with an
\* unreadable date
CommandAddInputs ==
    {Every("Do the dishes", 42, n, "d", None) : n \in 0..MaxInterval}
    \cup {Every("bins", 2, 1, "w", Tok(wd, None)) : wd \in {"wednesday", "u"}}
    \cup {Every("rent", 7, 1, "m", Tok("md", Some(md))) : md \in MonthdayInputs}
    \cup {On("classes", 2, Today + 1)}
    \cup {[Every("nobody", 1, 2, "d", None) EXCEPT !.user = None],
          [Every("when", 1, 2, "d", None) EXCEPT !.kw = "at"],
          Every("bad", 1, 2, "x", None),
          Every("bins", 2, 1, "w", None),
          Every("bins", 2, 1, "w", Tok("someday", None)),
          Every("rent", 7, 1, "m", Tok("21", Some(21))),
          Every("rent", 7, 1, "m", Tok("-21", Some(-21))),
          Every("rent", 7, 1, "m", Tok("last", None)),
          On("late", 2, Today),
          [On("garbled", 2, Today) EXCEPT !.date = None],
          BadTitleNoUser,
          Every("BadTitle", 42, 2, "x", None),
          [Every("\"Do the dishes", 42, 2, "d", None) EXCEPT !.closed = FALSE]}

InitCommands ==
    /\ \E day \in CommandDays : InitAt({PlainConfig}, day * SlotsPerDay)
    /\ calc = NoCalc

\* one chore at a time: added, delayed, deleted
NextCommands ==
    \/ AddCmd(CommandAddInputs, 0)
    \/ DeleteCmd
    \/ DelayCmd

SpecCommands == InitCommands /\ [][NextCommands]_vars

\* --------------------------------------- parse_chore_from_line on its own
\* one call of the parser: its arguments, whether it has run, what it gave
ParseInput(args) ==
    [args |-> args, done |-> FALSE, result |-> ParseError("")]

\* every argument list tried, on every day of the span; the variable calc
\* holds the call
InitParse ==
    /\ \E day \in CommandDays : InitAt({PlainConfig}, day * SlotsPerDay)
    /\ \E args \in CommandAddInputs : calc = ParseInput(args)

Parse ==
    /\ ~calc.done
    /\ calc' = [calc EXCEPT !.done = TRUE,
                  !.result = parse_chore_from_line(calc.args, Today)]
    /\ UNCHANGED <<state, config, next_remind_dt, state_file, config_file, now,
                   outbox, last, sweeps_today, ndelays, task_running>>

NextParse == Parse

SpecParse == InitParse /\ [][NextParse]_vars

\* ------------------------------------------------------------------ claims
\* the ids of the entries of a list of state.json
FileIds(list) == [i \in DOMAIN list |-> list[i].id]

NoDuplicates(seq) == \A i, j \in DOMAIN seq : seq[i] = seq[j] => i = j

\* C1: in every reachable state every chore id has at most one pending
\* occurrence, in memory and in state.json, and every pending occurrence
\* belongs to a chore of the registry.
C1_OccurrencesBelongToChores ==
    /\ DOMAIN state.upcoming_chores \subseteq DOMAIN state.chores
    /\ NoDuplicates(FileIds(state_file.upcoming_chores))
    /\ Range(FileIds(state_file.upcoming_chores))
           \subseteq Range(FileIds(state_file.chores))

\* C1 witness: a delete has removed one of two chores, the other is pending
C1_Witness ==
    /\ last.op = "delete" /\ last.result = "ok"
    /\ Cardinality(DOMAIN state.chores) = 1
    /\ DOMAIN state.upcoming_chores = DOMAIN state.chores
    /\ sweeps_today > 0

\* C2 as stated: an add assigns the smallest non-negative integer that is not
\* the id of a live chore, so every smaller id is live after the add.
C2_SmallestUnusedId ==
    (last.op = "add" /\ last.result = "ok")
        => \A j \in 0..(last.id - 1) : j \in DOMAIN state.chores

\* C2 amended: an add assigns the smallest integer that is at least the
\* last-assigned id counter and is not the id of a live chore, and sets the
\* counter to it; ids below the counter are not reused.
C2_SmallestIdFromCounter ==
    [][(last'.op = "add" /\ last'.result = "ok")
        => /\ last'.id >= state.last_chore_id
           /\ last'.id \notin DOMAIN state.chores
           /\ \A k \in state.last_chore_id..(last'.id - 1) : k \in DOMAIN state.chores
           /\ DOMAIN state'.chores = DOMAIN state.chores \cup {last'.id}
           /\ state'.last_chore_id = last'.id]_vars

\* C2 witness: an add has assigned an id while a smaller id was free
C2_Witness ==
    /\ last.op = "add" /\ last.result = "ok"
    /\ \E j \in 0..(last.id - 1) : j \notin DOMAIN state.chores

\* C3: for a recurring chore and a previous date that is absent or not after
\* today, a date returned by calculate_next_date is at least today + 1.
C3_NextDateAfterToday ==
    (calc.done /\ ~calc.result.raised) => calc.result.value >= calc.today + 1

\* C3 witness: an interval-days chore whose previous date lies more than the
\* interval before today is scheduled for tomorrow
C3_Witness ==
    /\ calc.done /\ ~calc.result.raised
    /\ calc.chore.unit = "d"
    /\ calc.sched_date # None
    /\ calc.today - Val(calc.sched_date) > Val(calc.chore.interval)
    /\ calc.result.value = calc.today + 1

\* a step of remind_task that fired its sweep
Fires == last'.op = "remind_task" /\ last'.result = "fired"

\* the occurrences a sweep starting now finds due
Due == {id \in DOMAIN state.upcoming_chores : state.upcoming_chores[id] <= Today}

\* the ids named by the itemized messages waiting to be sent
Notified == UNION {Range(outbox[i].chores) : i \in DOMAIN outbox}

\* C4: a sweep that fires queues one summary and then one itemized message
\* per user with a due chore; the itemized messages of a user name exactly
\* that user's occurrences dated on or before the sweep's day, each once; an
\* occurrence dated later is named in no message and keeps its date.
C4_SweepCollectsDue ==
    [][Fires =>
        LET users == {state.chores[id].user : id \in Due}
        IN  /\ Len(outbox') = 1 + Cardinality(users)
            /\ outbox'[1].chores = <<>>
            /\ outbox'[1].text = IF Due = {} THEN "No chores for today!"
                                 ELSE "Here are your dailies:"
            /\ \A i \in 2..Len(outbox') :
                 /\ outbox'[i].user \in users
                 /\ NoDuplicates(outbox'[i].chores)
                 /\ Range(outbox'[i].chores) =
                        {id \in Due : state.chores[id].user = outbox'[i].user}
                 /\ \A j \in 2..Len(outbox') :
                        outbox'[j].user = outbox'[i].user => j = i
            /\ \A id \in DOMAIN state.upcoming_chores \ Due :
                 /\ id \in DOMAIN state'.upcoming_chores
                 /\ state'.upcoming_chores[id] = state.upcoming_chores[id]
                 /\ id \in DOMAIN state'.chores
    ]_vars

\* a sweep has fired with one chore due today and another dated later
C4_Witness ==
    /\ last.op = "remind_task" /\ last.result = "fired"
    /\ Len(outbox) = 2
    /\ \E id \in DOMAIN state.upcoming_chores :
         /\ id \notin Notified
         /\ \E due \in Notified : due # id

\* C5: a fixed-date chore fired by a sweep is gone after that sweep, with its
\* occurrence, from memory and from state.json, so it cannot fire again; a
\* recurring chore fired by the same sweep is still registered with exactly
\* one occurrence, dated after the sweep's day.
C5_FixedDateFiresOnce ==
    [][Fires =>
        \A id \in Due :
            IF state.chores[id].date # None
            THEN /\ id \notin DOMAIN state'.chores
                 /\ id \notin DOMAIN state'.upcoming_chores
                 /\ id \notin Range(FileIds(state_file'.chores))
                 /\ id \notin Range(FileIds(state_file'.upcoming_chores))
            ELSE /\ id \in DOMAIN state'.chores
                 /\ state'.chores[id] = state.chores[id]
                 /\ id \in DOMAIN state'.upcoming_chores
                 /\ state'.upcoming_chores[id] > Today
                 /\ Cardinality({i \in DOMAIN state_file'.upcoming_chores :
                        state_file'.upcoming_chores[i].id = id}) = 1
    ]_vars

\* a sweep has fired a fixed-date chore, now gone, and a recurring chore, now
\* with its next occurrence
C5_Witness ==
    /\ last.op = "remind_task" /\ last.result = "fired"
    /\ \E gone \in Notified : gone \notin DOMAIN state.chores
    /\ \E kept \in Notified :
         /\ kept \in DOMAIN state.chores
         /\ kept \in DOMAIN state.upcoming_chores

\* C6: a run of remind_task before the cursor's instant changes neither the
\* registry, the occurrences, the cursor nor state.json and queues no
\* message; and a run that directly follows another run (and its sends), no
\* time and no command between them, leaves registry, occurrences, cursor
\* and state.json as they were.
C6_EarlySweepIsNoOp ==
    [][(last'.op = "remind_task") =>
        /\ (now - Instant(next_remind_dt) < 0) =>
               UNCHANGED <<state, next_remind_dt, state_file, config, outbox>>
        /\ (last.op \in {"remind_task", "send"}) =>
               UNCHANGED <<state, next_remind_dt, state_file, config>>
    ]_vars

\* remind_task has run before the cursor's instant while an occurrence was
\* already due, and has left it alone
C6_Witness ==
    /\ last.op = "remind_task" /\ last.result = "waiting"
    /\ Due # {}
    /\ now - Instant(next_remind_dt) < 0

\* the recurring chores, due now, whose next date cannot be computed
Failing ==
    {id \in Due :
        /\ state.chores[id].date = None
        /\ calculate_next_date(state.chores[id], Today,
                               Some(state.upcoming_chores[id])).raised}

\* C7: when the cursor has been reached and calculate_next_date raises for
\* a due chore, that run of remind_task leaves the registry, the occurrences,
\* the cursor and state.json as they were and queues no message, whatever
\* other chores were due.
C7_FailedSweepAppliesNothing ==
    [][(last'.op = "remind_task" /\ ~(now - Instant(next_remind_dt) < 0)
            /\ Failing # {}) =>
        /\ UNCHANGED <<state, next_remind_dt, state_file, outbox>>
        /\ last'.result = "raised"
    ]_vars

\* a sweep has raised on a chore after having collected another due chore,
\* one it could have recomputed
C7_Witness ==
    /\ last.op = "remind_task" /\ last.result = "raised"
    /\ \E bad \in Failing : \E good \in Due \ Failing :
         good < bad /\ state.chores[good].date = None

\* C8: after a sweep that fires on local day D the cursor is day D+1 at the
\* configured time in the configured zone, state.json holds D+1 as the next
\* reminder date, and no second sweep fires on day D.
C8_OneSweepPerDay ==
    /\ (last.op = "remind_task" /\ last.result = "fired") =>
          /\ next_remind_dt = RemindAt(Today + 1, config)
          /\ state.next_remind_date = Some(Today + 1)
          /\ state_file.next_remind_date = Some(strftime(Today + 1))
    /\ sweeps_today <= 1

\* C9: a restart rebuilds the cursor on the date state.json holds, at the
\* configured time and zone, which is the cursor the stopped process had;
\* the registry, the occurrences and state.json are as before, so the sweep
\* that was pending is still pending and the one that has fired is not
\* repeated.
C9_RestartKeepsCursor ==
    [][(last'.op = "restart") =>
        /\ state_file.next_remind_date # None
        /\ next_remind_dt' =
               RemindAt(strptime(Val(state_file.next_remind_date)), config_file)
        /\ next_remind_dt' = next_remind_dt
        /\ UNCHANGED <<state, state_file, config>>
    ]_vars

\* the process has been restarted after today's sweep, and the cursor is
\* still ahead
C9_Witness ==
    /\ last.op = "restart"
    /\ sweeps_today = 1
    /\ now - Instant(next_remind_dt) < 0
    /\ next_remind_dt.date = Today + 1

\* C10: wherever another handler can run, between handlers and at each await
\* of a sweep's sends, state.json holds exactly the registry, the occurrences
\* and the id counter in memory, and the cursor date in memory: no handler
\* finds the store between a read and its persist.
C10_StoreMatchesSnapshot ==
    /\ state_file = serialize(state)
    /\ deserialize(state_file) = state
    /\ state.next_remind_date = Some(next_remind_dt.date)

\* a command has changed the store while a sweep's messages were still being
\* sent
C10_Witness ==
    /\ outbox # <<>>
    /\ last.op \in {"add", "delete", "delay"}
    /\ last.result = "ok"

\* the step is the command `add "<title>" <@user> every <n>d`, accepted
AddsEveryDays(args) ==
    /\ args.closed
    /\ args.kw = "every" /\ args.dur.last = "d" /\ args.user # None
    /\ last'.op = "add"
    /\ Add(args, 0)

\* C11: whatever interval N an `every <N>d` chore declares, its first
\* occurrence (no previous date) is the day after today: the add command
\* registers the chore with interval N and unit d and schedules it for
\* tomorrow, so `add "Do the dishes" <@42> every 2d` on a Monday gives interval
\* 2, unit d and an occurrence on the Tuesday.
C11_FirstDaysOccurrenceIsTomorrow ==
    [][\A args \in CommandAddInputs :
         AddsEveryDays(args) =>
           /\ last' = Did("add", "ok", last'.id)
           /\ state'.chores[last'.id] =
                [NewChore EXCEPT !.title = args.title, !.user = Val(args.user),
                                 !.interval = args.dur.num, !.unit = "d"]
           /\ state'.upcoming_chores[last'.id] = Today + 1
           /\ WeekdayOf(Today) = 0 =>
                WeekdayOf(state'.upcoming_chores[last'.id]) = 1]_vars

\* `add "Do the dishes" <@42> every 2d` was accepted on a Monday
C11_Witness ==
    /\ last = Did("add", "ok", 0)
    /\ WeekdayOf(Today) = 0
    /\ 0 \in DOMAIN state.chores
    /\ state.chores[0].title = "Do the dishes"
    /\ state.chores[0].user = 42
    /\ state.chores[0].interval = Some(2)
    /\ state.chores[0].unit = "d"
    /\ 0 \in DOMAIN state.upcoming_chores
    /\ WeekdayOf(state.upcoming_chores[0]) = 1

\* C12: for an `every <N>d` chore with a previous date the next occurrence is
\* today + max(N - elapsed, 1), elapsed being the days from the previous date
\* to today: the later of previous date + N and today + 1.
C12_DaysFromPreviousDate ==
    (calc.done /\ calc.chore.unit = "d" /\ calc.sched_date # None) =>
        LET elapsed == calc.today - Val(calc.sched_date)
            interval == Val(calc.chore.interval)
        IN  /\ calc.result =
                 Returned(calc.today + (IF interval - elapsed >= 1
                                        THEN interval - elapsed ELSE 1))
            /\ calc.result.value >= Val(calc.sched_date) + interval
            /\ calc.result.value >= calc.today + 1
            /\ calc.result.value \in {Val(calc.sched_date) + interval,
                                      calc.today + 1}

\* every 2d, previous date today: the interval decides, not the floor
C12_Witness ==
    /\ calc.done
    /\ calc.chore.unit = "d"
    /\ calc.chore.interval = Some(2)
    /\ calc.sched_date = Some(calc.today)
    /\ calc.result = Returned(calc.today + 2)

\* C13: for an `every <N>w <weekday>` chore, whatever today is and whether the
\* previous date is absent or falls on any weekday, a date is returned and it
\* falls on the chore's weekday.
C13_WeeksLandOnWeekday ==
    (calc.done /\ calc.chore.unit = "w") =>
        /\ ~calc.result.raised
        /\ WeekdayOf(calc.result.value) = get_weekday_index(calc.chore.weekday)

\* a previous date on another weekday, and a result counted from it rather
\* than from today
C13_Witness ==
    /\ calc.done
    /\ calc.chore.unit = "w"
    /\ calc.sched_date # None
    /\ WeekdayOf(Val(calc.sched_date)) # get_weekday_index(calc.chore.weekday)
    /\ ~calc.result.raised
    /\ calc.result # next_weekday_after(calc.today,
                                        get_weekday_index(calc.chore.weekday))

\* the days a date lies before the last day of its month: 0 for the last day
DaysBeforeMonthEnd(d) ==
    LET at(c) == DaysInMonth(c.year, c.month) - c.day
    IN  at(CivilFromDays(d))

SameMonth(d, e) ==
    LET both(c, f) == c.year = f.year /\ c.month = f.month
    IN  both(CivilFromDays(d), CivilFromDays(e))

\* chore.py 103-107: the month the interval reaches from the previous date
MonthReached(chore, today, prev) ==
    LET stepped(ym) == add_months(ym.year, ym.month, Val(chore.interval))
        with_day(day0, s) ==
            stepped(IF s.day < day0
                    THEN add_months(s.year, s.month, -1)
                    ELSE [month |-> s.month, year |-> s.year])
        from(cur) ==
            with_day(get_monthday(cur.year, cur.month, chore.monthdays),
                     CivilFromDays(prev))
    IN  from(CivilFromDays(today))

\* a call for an `every <N>m -1` chore has returned or raised
MinusOneDone == calc.done /\ calc.chore.unit = "m" /\ calc.chore.monthdays = -1

\* C14 as stated: with month-day offset -1 every date returned is the last
\* calendar day of its month (`every 1m -1` on Jan 15 gives Jan 31).
C14_MinusOneIsLastDay ==
    (MinusOneDone /\ ~calc.result.raised) =>
        DaysBeforeMonthEnd(calc.result.value) = 0

\* C14: with month-day offset -1 the date returned is the second-to-last
\* calendar day of its month whenever there is no previous date or the date
\* lies in a later month than today: `every 1m -1` on Jan 15 gives Jan 30. With
\* a previous date, a date returned within today's month carries the
\* second-to-last day number of the month the interval reached from the
\* previous date, and the call raises only when today's month is too short to
\* have that day.
C14_MinusOneIsSecondToLast ==
    MinusOneDone =>
        /\ calc.sched_date = None =>
             /\ ~calc.result.raised
             /\ DaysBeforeMonthEnd(calc.result.value) = 1
        /\ (~calc.result.raised /\ ~SameMonth(calc.result.value, calc.today)) =>
             DaysBeforeMonthEnd(calc.result.value) = 1
        /\ calc.sched_date # None =>
             LET carried(ym, cur) ==
                     IF calc.result.raised
                     THEN DaysInMonth(ym.year, ym.month) - 1
                              > DaysInMonth(cur.year, cur.month)
                     ELSE \/ DaysBeforeMonthEnd(calc.result.value) = 1
                          \/ CivilFromDays(calc.result.value).day
                                 = DaysInMonth(ym.year, ym.month) - 1
             IN  carried(MonthReached(calc.chore, calc.today,
                                      Val(calc.sched_date)),
                         CivilFromDays(calc.today))
        /\ (calc.today = DaysFromCivil(2024, 1, 15) /\ calc.sched_date = None) =>
             calc.result = Returned(DaysFromCivil(2024, 1, 30))

\* `every 1m -1`, no previous date, on 2024-01-15: 2024-01-30
C14_Witness ==
    /\ MinusOneDone
    /\ calc.chore.interval = Some(1)
    /\ calc.sched_date = None
    /\ calc.today = DaysFromCivil(2024, 1, 15)
    /\ calc.result = Returned(DaysFromCivil(2024, 1, 30))

\* the month-day offset resolved for the month a date lies in
OwnMonthDay(chore, d) ==
    LET at(c) == get_monthday(c.year, c.month, chore.monthdays)
    IN  at(CivilFromDays(d))

\* C15: for an `every <N>m <offset>` chore every date returned has the
\* day-of-month that the offset resolves to in the returned date's own year
\* and month, the fall-through after a previous date included.
C15_MonthDayOfOwnMonth ==
    (calc.done /\ calc.chore.unit = "m" /\ ~calc.result.raised) =>
        CivilFromDays(calc.result.value).day
            = OwnMonthDay(calc.chore, calc.result.value)

\* the step is the command `add "<title>" <@user> every <n>m <md>`, accepted
AddsEveryMonths(args) ==
    /\ args.kw = "every" /\ args.dur.last = "m"
    /\ last' = Did("add", "ok", last'.id)
    /\ Add(args, 0)

\* C16: the month-day offset resolves to itself when positive and to
\* daysInMonth + offset when zero or negative, so a chore added with
\* `every 1m -3` is scheduled on the 4th-to-last day of a month, three days
\* before its last day, as the add command's help text says.
C16_MonthDayOffsetFromEnd ==
    [][\A args \in CommandAddInputs :
         AddsEveryMonths(args) =>
           LET scheduled(md, occ) ==
                   /\ state'.chores[last'.id].monthdays = md
                   /\ occ - Today > 0
                   /\ md > 0 => CivilFromDays(occ).day = md
                   /\ md <= 0 => DaysBeforeMonthEnd(occ) = -md
                   /\ md = -3 =>
                        occ + 3 = LET last_of(c) ==
                                          DaysFromCivil(c.year, c.month,
                                              DaysInMonth(c.year, c.month))
                                  IN  last_of(CivilFromDays(occ))
           IN  scheduled(Val(Val(args.extra).num),
                         state'.upcoming_chores[last'.id])]_vars

\* `every 1m -3` was accepted and its occurrence lies three days before the
\* end of a month
C16_Witness ==
    /\ last = Did("add", "ok", 0)
    /\ 0 \in DOMAIN state.chores
    /\ state.chores[0].unit = "m"
    /\ state.chores[0].monthdays = -3
    /\ 0 \in DOMAIN state.upcoming_chores
    /\ DaysBeforeMonthEnd(state.upcoming_chores[0]) = 3

\* the step is the command `delay <id> <dur>`, carried out
Delays(id_arg, dur) ==
    /\ last' = Did("delay", "ok", last'.id)
    /\ Delay(id_arg, dur)

\* the date `months` months after date d, on the day the offset resolves to
MonthsOn(d, months, monthdays) ==
    LET in_month(ym) ==
            DaysFromCivil(ym.year, ym.month,
                          get_monthday(ym.year, ym.month, monthdays))
        from(c) == in_month(add_months(c.year, c.month, months))
    IN  from(CivilFromDays(d))

\* C17: `delay <id> <N>d` moves the pending occurrence of the chore by N days,
\* `<N>w` by 7 * N days (2w: fourteen days later), `<N>m` to the month N
\* months later at the day the chore's stored month-day offset resolves to in
\* that month; the chore, every other occurrence and the cursor stay as they
\* are.
C17_DelayMovesOneOccurrence ==
    [][\A id_arg \in IdInputs, dur \in DelayInputs :
         Delays(id_arg, dur) =>
           LET moved(id, n, old) ==
                   /\ last'.id = id
                   /\ dur.last = "d" => state'.upcoming_chores[id] = old + n
                   /\ dur.last = "w" => state'.upcoming_chores[id] = old + 7 * n
                   /\ dur.last = "m" =>
                        state'.upcoming_chores[id]
                            = MonthsOn(old, n, state.chores[id].monthdays)
                   /\ state'.chores = state.chores
                   /\ state'.last_chore_id = state.last_chore_id
                   /\ DOMAIN state'.upcoming_chores = DOMAIN state.upcoming_chores
                   /\ \A other \in DOMAIN state.upcoming_chores \ {id} :
                        state'.upcoming_chores[other]
                            = state.upcoming_chores[other]
                   /\ next_remind_dt' = next_remind_dt
                   /\ state'.next_remind_date = state.next_remind_date
           IN  moved(Val(id_arg), Val(dur.num),
                     state.upcoming_chores[Val(id_arg)])]_vars

\* `delay <id> 2w` on an `every 2d` chore while another chore has an
\* occurrence too: the occurrence lies a fortnight ahead
C17_Witness ==
    /\ last.op = "delay" /\ last.result = "ok"
    /\ Cardinality(DOMAIN state.upcoming_chores) = 2
    /\ last.id \in DOMAIN state.upcoming_chores
    /\ state.chores[last.id].unit = "d"
    /\ state.upcoming_chores[last.id] - Today >= 14

\* the step is the command `delay <id> <dur>` for an id that has a pending
\* occurrence, with a duration token parse_duration does not take
DelaysMalformed(id_arg, dur) ==
    /\ parse_duration(dur) = None
    /\ id_arg # None
    /\ Val(id_arg) \in DOMAIN state.upcoming_chores
    /\ last'.op = "delay"
    /\ Delay(id_arg, dur)

\* C18: `delay <id> <dur>` on an id with a pending occurrence and a malformed
\* duration (such as `2x`) ends in a plain-text invalid-duration reply, not in
\* an unhandled exception, and changes no state.
C18_MalformedDelayReplies ==
    [][\A id_arg \in IdInputs, dur \in DelayInputs :
         DelaysMalformed(id_arg, dur) =>
           /\ last'.result = "error"
           /\ UNCHANGED <<state, state_file, next_remind_dt>>]_vars

\* the step is the command `delete <id>` for an id of the registry
DeletesChore(id_arg) ==
    /\ id_arg # None
    /\ Val(id_arg) \in DOMAIN state.chores
    /\ last'.op = "delete"
    /\ Delete(id_arg)

\* C19: `delete <id>` for an id of the registry removes exactly that chore and
\* its pending occurrence and persists the store; every other chore, every
\* other occurrence, the id counter and the cursor stay as they are.
C19_DeleteRemovesOneChore ==
    [][\A id_arg \in IdInputs :
         DeletesChore(id_arg) =>
           LET removed(id) ==
                   /\ last' = Did("delete", "ok", id)
                   /\ DOMAIN state'.chores = DOMAIN state.chores \ {id}
                   /\ \A k \in DOMAIN state'.chores :
                        state'.chores[k] = state.chores[k]
                   /\ DOMAIN state'.upcoming_chores
                          = DOMAIN state.upcoming_chores \ {id}
                   /\ \A k \in DOMAIN state'.upcoming_chores :
                        state'.upcoming_chores[k] = state.upcoming_chores[k]
                   /\ state'.last_chore_id = state.last_chore_id
                   /\ state'.next_remind_date = state.next_remind_date
                   /\ next_remind_dt' = next_remind_dt
                   /\ state_file' = serialize(state')
                   /\ id \notin Range(FileIds(state_file'.chores))
                   /\ id \notin Range(FileIds(state_file'.upcoming_chores))
           IN  removed(Val(id_arg))]_vars

\* a chore was deleted while another chore, with its occurrence, stays
C19_Witness ==
    /\ last.op = "delete" /\ last.result = "ok"
    /\ last.id \notin DOMAIN state.chores
    /\ \E k \in DOMAIN state.chores :
         /\ k \in DOMAIN state.upcoming_chores
         /\ k \in Range(FileIds(state_file.upcoming_chores))

\* the step is an `add` whose arguments the parser rejects
AddRejected(args) ==
    /\ last'.op = "add"
    /\ ~parse_chore_from_line(args, Today).ok
    /\ Add(args, 0)

\* the step is a `delete` with an id that is no integer or not registered
DeleteUnknown(id_arg) ==
    /\ last'.op = "delete"
    /\ id_arg = None \/ Val(id_arg) \notin DOMAIN state.chores
    /\ Delete(id_arg)

\* the step is a `delay` with an id that is no integer or has no pending
\* occurrence
DelayUnknown(id_arg, dur) ==
    /\ last'.op = "delay"
    /\ id_arg = None \/ Val(id_arg) \notin DOMAIN state.upcoming_chores
    /\ Delay(id_arg, dur)

\* the step left registry, occurrences, id counter, cursor and state.json alone
StoreUntouched == UNCHANGED <<state, state_file, next_remind_dt>>

\* C20: a command that ends in a user-facing error (add with arguments the
\* parser rejects, delete with an unknown or non-integer id, delay with an id
\* that has no pending occurrence) leaves registry, occurrences, id counter,
\* cursor and persisted snapshot unchanged.
C20_RejectedCommandsChangeNothing ==
    [][/\ \A args \in CommandAddInputs :
            AddRejected(args) => last'.result = "error" /\ StoreUntouched
       /\ \A id_arg \in IdInputs :
            DeleteUnknown(id_arg) =>
                last'.result = "not found" /\ StoreUntouched
       /\ \A id_arg \in IdInputs, dur \in DelayInputs :
            DelayUnknown(id_arg, dur) =>
                last'.result = "not found" /\ StoreUntouched
       /\ last'.result \in {"error", "not found"} => StoreUntouched]_vars

\* a rejected command with a chore and its occurrence in the store
C20_Witness ==
    /\ last.result \in {"error", "not found"}
    /\ state.chores # <<>>
    /\ state.upcoming_chores # <<>>
    /\ state_file = serialize(state)

\* the duration token `2x`
TwoX == [num |-> Some(2), last |-> "x"]

\* C21 as stated: parsing `add BadTitle every 2x` fails with the
\* duration-format error whose message names `2x`.
C21_BadTitleIsDurationError ==
    (calc.done /\ calc.args = BadTitleNoUser) =>
        calc.result = ParseErrorNaming("Invalid duration", TwoX)

\* C21: parsing `add BadTitle every 2x` fails with the missing-arguments
\* error, there being no user between title and `every`; with a user,
\* `add BadTitle <@42> every 2x` fails with the duration-format error whose
\* message names `2x`.
C21_BadTitleIsMissingArguments ==
    calc.done =>
        /\ calc.args = BadTitleNoUser =>
             calc.result = ParseError("Missing arguments")
        /\ calc.args = Every("BadTitle", 42, 2, "x", None) =>
             calc.result = ParseErrorNaming("Invalid duration", TwoX)

\* `BadTitle every 2x` has been parsed and rejected
C21_Witness ==
    /\ calc.done
    /\ calc.args = BadTitleNoUser
    /\ ~calc.result.ok
    /\ calc.result.message = "Missing arguments"

\* serialize, then deserialize
RoundTrip(st) == deserialize(serialize(st))

\* C22: serializing and then deserializing a state snapshot (chores of every
\* recurrence variant, pending occurrences, last-assigned id, cursor date,
\* present or absent) gives a state equal to the original in every field.
C22_SnapshotRoundTrip ==
    /\ RoundTrip(state) = state
    /\ deserialize(state_file) = state
    /\ LET cursorless(st) == RoundTrip(st) = st /\ st.next_remind_date = None
       IN  cursorless([state EXCEPT !.next_remind_date = None])

\* a fixed-date chore and a monthly chore registered, both pending, and the
\* snapshot on disk reads back as the state
C22_Witness ==
    /\ \E i, j \in DOMAIN state.upcoming_chores :
         /\ state.chores[i].date # None
         /\ state.chores[j].unit = "m"
    /\ state.last_chore_id > 0
    /\ state.next_remind_date # None
    /\ deserialize(state_file) = state

\* C23: every recurring chore that enters the registry through the add
\* command has an interval of at least 1, for days, weeks and months alike; a
\* duration token with a zero or negative number is not accepted.
C23_IntervalsArePositive ==
    \A id \in DOMAIN state.chores :
        state.chores[id].interval # None =>
            Val(state.chores[id].interval) >= 1

\* the step is the command `add "<title>" <@user> on <date>`
AddsOn(args) ==
    /\ last'.op = "add"
    /\ args.kw = "on" /\ args.date # None
    /\ Add(args, 0)

\* C24: right after an add that succeeds the new chore has a pending
\* occurrence dated strictly after today, whatever its variant; an
\* `on <date>` chore is accepted only if the date is strictly after today and
\* is a parse error otherwise.
C24_AddedOccurrenceAfterToday ==
    [][/\ (last'.op = "add" /\ last'.result = "ok") =>
            /\ last'.id \in DOMAIN state'.upcoming_chores
            /\ state'.upcoming_chores[last'.id] - Today > 0
       /\ \A args \in CommandAddInputs :
            AddsOn(args) =>
                IF Val(args.date) - Today > 0
                THEN /\ last'.result = "ok"
                     /\ state'.upcoming_chores[last'.id] = Val(args.date)
                ELSE last'.result = "error" /\ StoreUntouched]_vars

\* an `on <tomorrow>` chore was added
C24_Witness ==
    /\ last = Did("add", "ok", 0)
    /\ 0 \in DOMAIN state.upcoming_chores
    /\ state.chores[0].date = Some(Today + 1)
    /\ state.upcoming_chores[0] = Today + 1

\* calculate_next_date fails on the chore as on data that was never validated
FailsAsInvalid(chore, sched_date) ==
    calculate_next_date(chore, Today, sched_date)
        \in {InvalidUnits, InvalidWeekday}

\* C25: no chore the command parser produced drives calculate_next_date into
\* its invalid-units or invalid-weekday failure, whatever adds, delays, sweeps,
\* deletes and restarts came before: a chore without a date has unit d, w or
\* m, and a weekday the index knows when its unit is w; a chore with a date
\* returns that date.
C25_NoInvalidUnitOrWeekday ==
    \A id \in DOMAIN state.chores :
        LET valid(chore) ==
                /\ ~FailsAsInvalid(chore, None)
                /\ id \in DOMAIN state.upcoming_chores =>
                     ~FailsAsInvalid(chore, Some(state.upcoming_chores[id]))
                /\ chore.date = None =>
                     /\ chore.unit \in {"d", "w", "m"}
                     /\ chore.unit = "w" =>
                          get_weekday_index(chore.weekday) # -1
                /\ chore.date # None =>
                     calculate_next_date(chore, Today, None).value
                         = Val(chore.date)
        IN  valid(state.chores[id])

\* a sweep has fired and re-armed an `every 1w wednesday` chore
C25_Witness ==
    /\ last.op = "remind_task" /\ last.result = "fired"
    /\ \E id \in DOMAIN state.upcoming_chores :
         /\ state.chores[id].unit = "w"
         /\ state.chores[id].weekday = "w"
         /\ state.upcoming_chores[id] - Today = 7

\* C26: calculate_next_date never fails to build a date: for every chore the
\* parser accepts, every today and every previous date on or before today,
\* however far back, it returns a date and does not raise.
C26_AlwaysReturnsADate ==
    calc.done => ~calc.result.raised

\* the occurrence store with one chore at a time and the callbacks scheduled:
\* tasks.loop runs remind_task every minute until a run raises, and an await
\* of channel.send ends, by completing or by raising
NextFair ==
    \/ NextDay
    \/ remind_task
    \/ SendNext
    \/ SendFails
    \/ AddCmd(AddInputs, 0)
    \/ DelayCmd
    \/ Restart

SpecFair ==
    /\ Init
    /\ [][NextFair]_vars
    /\ WF_vars(remind_task)
    /\ WF_vars(SendNext \/ SendFails)

\* the cursor time has been reached and a channel is configured
SweepPending ==
    /\ config.discord_remind_channel # 0
    /\ CursorReached(now, next_remind_dt)

\* C27: with the channel configured and remind_task run fairly, whenever
\* the cursor time has been reached a sweep eventually completes and moves
\* the cursor to a later day; the scheduler is never stuck for good with a
\* cursor in the past.
C27_ReachedCursorLeadsToSweep ==
    SweepPending ~> ~SweepPending

\* C28: immediately after a sweep that fires on day D every pending
\* occurrence has a date after D: nothing that was due is left pending and
\* every re-armed occurrence is in the future.
C28_NothingDueAfterSweep ==
    [][Fires =>
        \A id \in DOMAIN state'.upcoming_chores :
            state'.upcoming_chores[id] > Today
    ]_vars

\* a sweep has fired a monthly chore and re-armed it, and has left alone an
\* occurrence that was not due
C28_Witness ==
    /\ last.op = "remind_task" /\ last.result = "fired"
    /\ \E i \in DOMAIN outbox : \E id \in Range(outbox[i].chores) :
         /\ id \in DOMAIN state.upcoming_chores
         /\ state.chores[id].unit = "m"
    /\ \E id \in DOMAIN state.upcoming_chores : id \notin Notified

\* C29: in every reachable state every chore of the registry has a pending
\* occurrence and every occurrence has its chore: the ids of chores and of
\* upcoming_chores are the same set, whatever adds, deletes, delays and
\* sweeps have run.
C29_ChoresAndOccurrencesAgree ==
    DOMAIN state.chores = DOMAIN state.upcoming_chores

\* a chore was deleted after a delay and a firing sweep, and another chore
\* is still registered
C29_Witness ==
    /\ last.op = "delete" /\ last.result = "ok"
    /\ ndelays > 0 /\ sweeps_today > 0
    /\ DOMAIN state.chores # {}
    /\ DOMAIN state.upcoming_chores # {}

\* the call is the one an on-time sweep makes: the previous date is today,
\* and today is on the chore's weekday or month day
OnTime ==
    /\ calc.done
    /\ calc.sched_date = Some(calc.today)
    /\ calc.chore.unit = "w" =>
         WeekdayOf(calc.today) = get_weekday_index(calc.chore.weekday)
    /\ calc.chore.unit = "m" =>
         CivilFromDays(calc.today).day = OwnMonthDay(calc.chore, calc.today)

\* one interval after date d: N days, 7N days, or N months on, on the day
\* the offset resolves to in that month
OneIntervalAfter(chore, d) ==
    IF chore.unit = "d" THEN Returned(d + Val(chore.interval))
    ELSE IF chore.unit = "w" THEN Returned(d + 7 * Val(chore.interval))
    ELSE Returned(MonthsOn(d, Val(chore.interval), chore.monthdays))

\* C30: when the sweep is on time (the occurrence is fired on its own date,
\* which is on the chore's weekday or month day) a recurring chore is re-armed
\* exactly one interval after the fired date: N days, 7N days, or N months
\* later on the resolved day.
C30_OnTimeSweepKeepsCadence ==
    OnTime => calc.result = OneIntervalAfter(calc.chore, calc.today)

\* C31: add_new_chore never overwrites a live chore: the id it takes is not
\* in the registry beforehand and the chores registered before stay as they
\* were; and the counter last_chore_id never decreases, whatever adds,
\* deletes, sweeps and restarts run.
C31_AddNeverOverwrites ==
    [][/\ state'.last_chore_id >= state.last_chore_id
       /\ (last'.op = "add" /\ last'.result = "ok") =>
            /\ last'.id \notin DOMAIN state.chores
            /\ \A k \in DOMAIN state.chores :
                 /\ k \in DOMAIN state'.chores
                 /\ state'.chores[k] = state.chores[k]
    ]_vars

\* a chore was added with id 1 after a firing sweep and after the chore with
\* id 0 had gone: the counter did not go back
C31_Witness ==
    /\ last = Did("add", "ok", 1)
    /\ DOMAIN state.chores = {1}
    /\ state.last_chore_id = 1
    /\ sweeps_today > 0

\* the step is a mutating operation that completed: an add, a delete or a
\* delay carried out, or a sweep that fired
Mutates ==
    \/ last'.op \in {"add", "delete", "delay"} /\ last'.result = "ok"
    \/ Fires

\* C32: after every completed mutating operation (add, delete, delay, firing
\* sweep) state.json is the snapshot of the registry, the occurrences, the id
\* counter and the cursor date in memory, so a restart at that point loads
\* exactly the state the running service had.
C32_SnapshotAfterEveryMutation ==
    [][Mutates =>
        /\ state_file' = serialize(state')
        /\ ClientInit(config_file', deserialize(state_file'), now').state
             = state'
    ]_vars

\* an occurrence has been delayed into the past after a firing sweep, and
\* state.json holds the new date
C32_Witness ==
    /\ last.op = "delay" /\ last.result = "ok"
    /\ sweeps_today > 0
    /\ state.upcoming_chores[last.id] < Today
    /\ \E i \in DOMAIN state_file.upcoming_chores :
         /\ state_file.upcoming_chores[i].id = last.id
         /\ strptime(state_file.upcoming_chores[i].date)
              = state.upcoming_chores[last.id]

\* C33: a sweep that fires has applied its updates and deletions, moved the
\* cursor on and written state.json when its first message is still to be
\* sent; a send, completing or raising, changes none of them; and when the
\* first send raises, no chore of the unsent messages is due any more, so a
\* run of remind_task that follows the sends names no chore.
C33_SweepPersistsBeforeSending ==
    [][/\ Fires =>
            /\ outbox' # <<>>
            /\ \A id \in Due :
                 \/ id \notin DOMAIN state'.upcoming_chores
                 \/ state'.upcoming_chores[id] > Today
            /\ next_remind_dt'.date > Today
            /\ state'.next_remind_date = Some(next_remind_dt'.date)
            /\ state_file' = serialize(state')
       /\ last'.op = "send" =>
            /\ UNCHANGED <<state, state_file, next_remind_dt>>
            /\ (last.op = "remind_task" /\ last'.result = "raised") =>
                 \A id \in Notified :
                     \/ id \notin DOMAIN state.upcoming_chores
                     \/ state.upcoming_chores[id] > Today
       /\ (last'.op = "remind_task" /\ last.op = "send") => Notified' = {}
    ]_vars

\* the first send of a sweep has raised: the sweep's day is over for the
\* cursor and for state.json, and a recurring chore waits for a later day
C33_Witness ==
    /\ last.op = "send" /\ last.result = "raised"
    /\ sweeps_today = 1
    /\ next_remind_dt.date = Today + 1
    /\ state_file.next_remind_date = Some(strftime(Today + 1))
    /\ \E id \in DOMAIN state.upcoming_chores :
         /\ state.chores[id].date = None
         /\ state.upcoming_chores[id] > Today

\* ------------------------------------------------ the channel left unset
\* config.json with and without a reminder channel
ChannelConfigs ==
    {[PlainConfig EXCEPT !.discord_remind_channel = ch] : ch \in {0, Channel}}

InitChannel == InitWith(ChannelConfigs) /\ calc = NoCalc

\* one chore at most, with or without a channel, the clock moving by days
NextChannel ==
    \/ NextDay
    \/ remind_task
    \/ SendNext
    \/ SendFails
    \/ AddCmd(AddInputs, 0)
    \/ DeleteCmd
    \/ DelayCmd
    \/ ConfigSetChannel
    \/ Restart

SpecChannel == InitChannel /\ [][NextChannel]_vars

PreviousDateResult(chore, sched_date) ==
    LET on_weekday == CHOOSE d \in (Val(sched_date) - 6)..Val(sched_date) :
                          WeekdayOf(d) = get_weekday_index(chore.weekday)
    IN  on_weekday + 7 * Val(chore.interval)

\* no previous date, or a candidate from it that is not after today
NoUsablePrevious(chore, today, sched_date) ==
    \/ sched_date = None
    \/ PreviousDateResult(chore, sched_date) <= today

\* C35: for an interval-weeks chore with no previous date, or whose candidate
\* from the previous date is on or before today, the result is the first date
\* after today on the chore's weekday: within today + 1 .. today + 7, and
\* today + 7 when today is that weekday.
C35_WeeksFallbackAfterToday ==
    (/\ calc.done
     /\ calc.chore.unit = "w"
     /\ NoUsablePrevious(calc.chore, calc.today, calc.sched_date)) =>
        /\ ~calc.result.raised
        /\ calc.result.value \in (calc.today + 1)..(calc.today + 7)
        /\ WeekdayOf(calc.result.value) = get_weekday_index(calc.chore.weekday)
        /\ WeekdayOf(calc.today) = get_weekday_index(calc.chore.weekday) =>
             calc.result.value = calc.today + 7

\* today is the chore's weekday, the candidate from the previous date is
\* today, and the result is a week from today
C35_Witness ==
    /\ calc.done
    /\ calc.chore.unit = "w"
    /\ calc.chore.interval = Some(1)
    /\ calc.sched_date # None
    /\ PreviousDateResult(calc.chore, calc.sched_date) = calc.today
    /\ WeekdayOf(calc.today) = get_weekday_index(calc.chore.weekday)
    /\ calc.result = Returned(calc.today + 7)

\* ------------------------------------- add_months and get_monthday on their own
\* line 71 of command.py: the largest month-day offset the parser accepts
MonthdayLimit == 20

\* the largest number of months added or taken away
MaxDeltaMonths == 30

\* a century year that is no leap year, one that is, a common and a leap year
CalendarYears == {1900, 2000, 2023, 2024}

\* one call of get_monthday or add_months; the variable calc holds the call
CalendarInput(fn, year, month, delta) ==
    [fn |-> fn, year |-> year, month |-> month, delta |-> delta,
     done |-> FALSE, result |-> None]

\* every year and month, with every offset the parser accepts and every
\* number of months
InitCalendar ==
    /\ InitWith({PlainConfig})
    /\ \E year \in CalendarYears, month \in 1..12 :
         \/ \E delta \in (-MonthdayLimit)..MonthdayLimit :
              calc = CalendarInput("get_monthday", year, month, delta)
         \/ \E delta \in (-MaxDeltaMonths)..MaxDeltaMonths :
              calc = CalendarInput("add_months", year, month, delta)

\* get_monthday, and datetime.date of the year, the month and its result
GetMonthday ==
    /\ ~calc.done
    /\ calc.fn = "get_monthday"
    /\ \E day \in {get_monthday(calc.year, calc.month, calc.delta)} :
         calc' = [calc EXCEPT !.done = TRUE,
                    !.result = [day |-> day,
                                date |-> MkDate(calc.year, calc.month, day)]]
    /\ UNCHANGED <<state, config, next_remind_dt, state_file, config_file, now,
                   outbox, last, sweeps_today, ndelays, task_running>>

\* add_months, and add_months of its result with the delta negated
AddMonths ==
    /\ ~calc.done
    /\ calc.fn = "add_months"
    /\ \E to \in {add_months(calc.year, calc.month, calc.delta)} :
         calc' = [calc EXCEPT !.done = TRUE,
                    !.result = [to |-> to,
                                back |-> add_months(to.year, to.month,
                                                    -calc.delta)]]
    /\ UNCHANGED <<state, config, next_remind_dt, state_file, config_file, now,
                   outbox, last, sweeps_today, ndelays, task_running>>

NextCalendar == GetMonthday \/ AddMonths

SpecCalendar == InitCalendar /\ [][NextCalendar]_vars

\* C36: for every offset from -20 to 20 and every year and month, get_monthday
\* returns a day from 1 to the number of days of that month, and
\* datetime.date of that year, month and day is built and is that day of that
\* month.
C36_MonthDayWithinMonth ==
    (calc.done /\ calc.fn = "get_monthday") =>
        /\ calc.result.day \in 1..DaysInMonth(calc.year, calc.month)
        /\ ~calc.result.date.raised
        /\ CivilFromDays(calc.result.date.value)
             = [year |-> calc.year, month |-> calc.month,
                day |-> calc.result.day]

\* offset -20 in a February of 28 days: the 8th
C36_Witness ==
    /\ calc.done
    /\ calc.fn = "get_monthday"
    /\ calc.delta = -MonthdayLimit
    /\ DaysInMonth(calc.year, calc.month) = 28
    /\ calc.result.day = 8
    /\ calc.result.date = Returned(DaysFromCivil(calc.year, 2, 8))

\* C37: add_months of a month in 1..12 and any delta returns a month in 1..12
\* and a year such that the count of months 12 * year + (month - 1) has grown
\* by delta; add_months of the result and the negated delta returns the year
\* and month it started from.
C37_AddMonthsCountsMonths ==
    (calc.done /\ calc.fn = "add_months") =>
        /\ calc.result.to.month \in 1..12
        /\ 12 * calc.result.to.year + (calc.result.to.month - 1)
             = 12 * calc.year + (calc.month - 1) + calc.delta
        /\ calc.result.back = [month |-> calc.month, year |-> calc.year]

\* a negative delta that crosses more than one year end, not a multiple of 12
C37_Witness ==
    /\ calc.done
    /\ calc.fn = "add_months"
    /\ calc.delta < -12
    /\ calc.month - 1 + calc.delta < -12
    /\ (calc.month - 1 + calc.delta) % 12 # 0
    /\ calc.result.to.year = calc.year - 2
    /\ calc.result.back = [month |-> calc.month, year |-> calc.year]

\* ------------------------------------------------- SerializableFile.load
\* what makes load raise inside its try block: state.json is no JSON, or the
\* entry at position `index` of one of its two lists cannot be deserialized,
\* or last_chore_id is missing, or next_remind_date is no date
LoadFailures(obj) ==
    {[at |-> "json", index |-> 0], [at |-> "last_chore_id", index |-> 0]}
    \cup {[at |-> "chores", index |-> i] : i \in DOMAIN obj.chores}
    \cup {[at |-> "upcoming_chores", index |-> i] :
            i \in DOMAIN obj.upcoming_chores}
    \cup {[at |-> "next_remind_date", index |-> 0] :
            x \in DOMAIN obj.next_remind_date}

\* the fields of the DailiesState object when deserialize raises at the
\* failure: both dicts were cleared, the entries before the failure are
\* loaded, the scalars not yet assigned keep their class defaults
deserialize_raising(obj, failure) ==
    LET chores_read ==
            IF failure.at = "chores" THEN failure.index - 1 ELSE Len(obj.chores)
        upcoming_read ==
            CASE failure.at = "chores" -> 0
              [] failure.at = "upcoming_chores" -> failure.index - 1
              [] OTHER -> Len(obj.upcoming_chores)
        read == deserialize([obj EXCEPT
                    !.chores = SubSeq(@, 1, chores_read),
                    !.upcoming_chores = SubSeq(@, 1, upcoming_read)])
    IN  [chores |-> read.chores,
         upcoming_chores |-> read.upcoming_chores,
         last_chore_id |-> IF failure.at = "next_remind_date"
                           THEN obj.last_chore_id
                           ELSE DefaultState.last_chore_id,
         next_remind_date |-> DefaultState.next_remind_date]

\* the state object after load has caught the exception (lines 76-86): a new
\* object as constructed when json.load raised, as deserialize left it
\* otherwise; save() at line 84 writes that object
load_failing(obj, failure) ==
    IF failure.at = "json" THEN DefaultState
    ELSE deserialize_raising(obj, failure)

\* the process is stopped, state.json is damaged, the process is started:
\* load fails, moves the file aside and saves; __init__ finds no
\* next_remind_date, builds the cursor from the clock and saves again
RestartDamaged ==
    /\ \E failure \in LoadFailures(state_file) :
         \E c \in {ClientInit(config_file, load_failing(state_file, failure),
                              now)} :
            /\ state' = c.state
            /\ next_remind_dt' = c.next_remind_dt
            /\ state_file' = serialize(state')
            /\ last' = Did("load", failure.at, failure.index)
    /\ config' = config_file
    /\ outbox' = <<>>
    /\ task_running' = TRUE
    /\ UNCHANGED <<config_file, now, sweeps_today, ndelays, calc>>

\* the add commands tried under SpecLoad
LoadAddInputs == {Every("dishes", 1, 2, "d", None), On("classes", 2, Today + 1)}

\* the occurrence store under PlainConfig with restarts over a damaged
\* state.json
NextLoad ==
    \/ NextDay
    \/ remind_task
    \/ SendNext
    \/ SendFails
    \/ AddCmd(LoadAddInputs, MaxId)
    \/ Restart
    \/ RestartDamaged

SpecLoad == Init /\ [][NextLoad]_vars

\* C38: after a start whose load of state.json failed, wherever the failure
\* occurred, the registry is empty, no occurrence is pending, and state.json
\* holds an empty registry and no occurrence.
C38_FailedLoadGivesDefault ==
    last.op = "load" =>
        /\ state.chores = DefaultState.chores
        /\ state.upcoming_chores = DefaultState.upcoming_chores
        /\ state.last_chore_id = DefaultState.last_chore_id
        /\ state_file.chores = <<>>
        /\ state_file.upcoming_chores = <<>>

====
